---- MODULE Spec2Model ----
(***************************************************************************)
(* Target resolution, selection-mode evaluation and the experiment         *)
(* lifecycle of the chaos-engineering experiments agent.                   *)
(*                                                                         *)
(* The lifecycle is the workflow of src/src/ExperimentsAgent/              *)
(* system_prompt.md (status update points, validation pattern, status      *)
(* names).  The parts the repository's files do not contain (the           *)
(* conditional store update, retry, cancel, the polling deadline, the      *)
(* arithmetic of the quantifiers) follow the specification's sections 4    *)
(* and 5.                                                                  *)
(***************************************************************************)
EXTENDS Integers, Sequences, FiniteSets, TLC

\* ------------------------------------------------------------------ bounds
NumRes == 3          \* resources in the inventory (ids 1..NumRes)
MaxCount == 4        \* largest n of a Count(n) target
MaxPolls == 2        \* status polls before the overall polling deadline
MaxRetries == 1      \* external retries in one behaviour
MaxDrift == 1        \* inventory changes in one behaviour
MaxTagRes == 2       \* resources in a list handed to the tag filter alone
MaxPipeRes == 4      \* resources of an inventory handed to one validation run

ResIds == 1..NumRes

\* ------------------------------------------------------------ state
VARIABLES selEligible, selMode, selResult,
          tagIds, tagInv, tagFilt, tagOut, tagDone,
          inventory, drifts,
          expMode, expAction, expTags,
          status, notes, templateId, lastWrite,
          pc, act, vr, resp, pollCount, reply, warning,
          fisState, fisTargets, createCalls, startCalls,
          validations, retries, lastRun

selVars == <<selEligible, selMode, selResult>>
tagVars == <<tagIds, tagInv, tagFilt, tagOut, tagDone>>
descVars == <<expMode, expAction, expTags>>
storeVars == <<status, notes, templateId, lastWrite>>
ctrlVars == <<pc, vr, resp, pollCount, reply>>
fisVars == <<fisState, fisTargets, createCalls, startCalls>>
lifeVars == <<inventory, drifts, descVars, storeVars, ctrlVars, act, warning, fisVars,
              validations, retries, lastRun>>
vars == <<selVars, tagVars, lifeVars>>

\* ------------------------------------------------------ selection modes
PercentValues == {0, 1, 25, 33, 50, 67, 75, 100}

Count(n) == [kind |-> "count", n |-> n, ids |-> {}]
Percent(p) == [kind |-> "percent", n |-> p, ids |-> {}]
All == [kind |-> "all", n |-> 0, ids |-> {}]
Explicit(ids) == [kind |-> "explicit", n |-> 0, ids |-> ids]

\* The ids of S in the resolver's stable order (ascending id).
RECURSIVE SetToSeq(_)
SetToSeq(S) ==
    IF S = {} THEN <<>>
    ELSE LET m == CHOOSE x \in S : \A y \in S : x <= y
         IN <<m>> \o SetToSeq(S \ {m})

SeqToSet(s) == {s[i] : i \in 1..Len(s)}

FirstN(s, n) == SubSeq(s, 1, n)

CeilDiv(a, b) == (a + b - 1) \div b

\* Percent(p) of k eligible resources, rounded up.
PercentRequiredFloor(p, k) == (p * k) \div 100
PercentRequired(p, k) == CeilDiv(p * k, 100)

\* COUNT(N): at least N resources are available.
CountSatisfiedStrict(k, n) == k > n
CountSatisfied(k, n) == k >= n

\* ALL: at least one matching resource.
AllSatisfiedEmpty(k) == k >= 0
AllSatisfied(k) == k >= 1

\* Explicit(ids): the listed ids that are not among the eligible
\* resources, each reported on its own.
ExplicitMissingOne(eligible, ids) ==
    IF ids \subseteq SeqToSet(eligible) THEN {}
    ELSE {CHOOSE x \in ids : x \notin SeqToSet(eligible)}
ExplicitMissing(eligible, ids) == ids \ SeqToSet(eligible)

\* The number of resources a mode asks for, given k eligible ones.
RequiredCount(mode, k) ==
    CASE mode.kind = "count" -> mode.n
      [] mode.kind = "percent" -> PercentRequired(mode.n, k)
      [] mode.kind = "all" -> k
      [] OTHER -> Cardinality(mode.ids)

\* meets_selection_requirements(valid_resources, selection_mode)
meets_selection_requirements(eligible, mode) ==
    LET k == Len(eligible)
    IN CASE mode.kind = "count" -> CountSatisfied(k, mode.n)
         [] mode.kind = "percent" ->
                k >= PercentRequired(mode.n, k) /\ PercentRequired(mode.n, k) >= 1
         [] mode.kind = "all" -> AllSatisfied(k)
         [] OTHER -> ExplicitMissing(eligible, mode.ids) = {}

\* The concrete target subset of a satisfied mode.
SelectMatched(eligible, mode) ==
    CASE mode.kind \in {"count", "percent"} ->
             FirstN(eligible, RequiredCount(mode, Len(eligible)))
      [] mode.kind = "all" -> eligible
      [] OTHER -> SetToSeq(mode.ids)

\* The Selection-Mode Evaluator: eligible list + mode -> ValidationResult.
EvaluateSelection(eligible, mode) ==
    LET k == Len(eligible)
        ok == meets_selection_requirements(eligible, mode)
    IN [status |-> IF ok THEN "valid" ELSE "insufficient_resources",
        matched |-> IF ok THEN SelectMatched(eligible, mode) ELSE <<>>,
        required |-> RequiredCount(mode, k),
        eligible_count |-> k,
        missing |-> IF mode.kind = "explicit"
                    THEN ExplicitMissing(eligible, mode.ids) ELSE {}]

NoResult == [status |-> "none", matched |-> <<>>, required |-> 0,
             eligible_count |-> 0, missing |-> {}]

\* ------------------------------------------------------------ inventory
\* A ResourceRecord: state and tags (a set of <<key, value>> pairs).
EnvTest == {<<"env", "test">>}
ResourceStates == {"running", "stopped"}

\* Tag Filter: the resources whose tags contain every required pair;
\* an empty filter passes everything.
TagFilterAny(ids, inv, filter) ==
    SelectSeq(ids, LAMBDA i : filter = {} \/ filter \cap inv[i].tags # {})
TagFilter(ids, inv, filter) ==
    SelectSeq(ids, LAMBDA i : filter \subseteq inv[i].tags)

\* Target Resolver: every resource of the inventory, ascending id.
ResolveUnstable(inv) ==
    LET l == SetToSeq(DOMAIN inv)
    IN IF validations % 2 = 0
       THEN [k \in 1..Len(l) |-> l[Len(l) + 1 - k]] ELSE l
Resolve(inv) == SetToSeq(DOMAIN inv)

\* The states that count as active for an action without a rule of its
\* own (running/active).
ActiveStates == {"running", "active", "available"}
RegisteredActions ==
    {"aws:ec2:stop-instances", "aws:ec2:reboot-instances",
     "aws:rds:reboot-db-instances", "aws:rds:failover-db-cluster",
     "aws:eks:terminate-nodegroup-instances"}

\* validate_resource_for_action: instance lifecycle actions need a
\* running instance.
validate_registered_only(rec, action) ==
    CASE action = "aws:ec2:stop-instances" -> rec.state = "running"
      [] action = "aws:ec2:reboot-instances" -> rec.state = "running"
      [] action = "aws:rds:reboot-db-instances" -> rec.state = "available"
      [] action = "aws:rds:failover-db-cluster" -> TRUE
      [] action = "aws:eks:terminate-nodegroup-instances" -> TRUE
      [] OTHER -> FALSE
validate_resource_for_action(rec, action) ==
    CASE action = "aws:ec2:stop-instances" -> rec.state = "running"
      [] action = "aws:ec2:reboot-instances" -> rec.state = "running"
      [] action = "aws:rds:reboot-db-instances" -> rec.state = "available"
      [] action = "aws:rds:failover-db-cluster" -> TRUE
      [] action = "aws:eks:terminate-nodegroup-instances" -> TRUE
      [] OTHER -> rec.state \in ActiveStates

\* The warning recorded for an action without a rule of its own.
UnknownActionWarning == "no rule for the action: permissive default applied"
action_warning(action) ==
    IF action \in RegisteredActions THEN "none" ELSE UnknownActionWarning

\* Actions with a rule on the group as a whole: a cluster needs two DB
\* instances for a failover, a nodegroup two nodes for a termination.
MinMembers == 2
AggregateActions ==
    {"aws:rds:failover-db-cluster", "aws:eks:terminate-nodegroup-instances"}
AggregateViolation(members, action) ==
    action \in AggregateActions /\ Len(members) < MinMembers

\* The FAILURE ACTION the rules declare for an action (the action itself
\* where none is declared).
FallbackAny(action) == "aws:rds:reboot-db-instances"
FallbackAction(action) ==
    IF action = "aws:rds:failover-db-cluster"
    THEN "aws:rds:reboot-db-instances" ELSE action
HasFallback(action) == FallbackAction(action) # action
SwitchNote == "Switched from failover-db-cluster to reboot-db-instances"

\* valid_resources of the validation pattern.
ValidResourcesAll(ids, inv, action) == ids
ValidResources(ids, inv, action) ==
    SelectSeq(ids, LAMBDA i : validate_resource_for_action(inv[i], action))

\* One validation run: resolve, filter by tags, check the action's
\* preconditions, evaluate the selection mode.
ValidateDiscovered(ids, inv, filter, action, mode) ==
    EvaluateSelection(ids, mode)
ValidateResolved(ids, inv, filter, action, mode) ==
    EvaluateSelection(
        ValidResources(TagFilter(ids, inv, filter), inv, action), mode)
ValidateTarget(inv, filter, action, mode) ==
    ValidateResolved(Resolve(inv), inv, filter, action, mode)

\* What the inventory answers to a discovery.
ResolveOutcomes ==
    {"ok", "scope_absent", "unknown_type", "unreachable", "denied"}

\* Target Resolver with its failures: an error for an unknown resource
\* type (and for an inventory that cannot be queried), an empty list
\* with a reason for a scope that does not exist.
ResolveTargetRaising(inv, outcome) ==
    [error |-> IF outcome = "ok" THEN "none" ELSE outcome,
     resources |-> IF outcome = "ok" THEN Resolve(inv) ELSE <<>>,
     reason |-> "none"]
ResolveTarget(inv, outcome) ==
    [error |-> IF outcome \in {"ok", "scope_absent"} THEN "none" ELSE outcome,
     resources |-> IF outcome = "ok" THEN Resolve(inv) ELSE <<>>,
     reason |-> IF outcome = "scope_absent" THEN "scope_absent" ELSE "none"]
NoResolved == [error |-> "none", resources |-> <<>>, reason |-> "none"]

\* ------------------------------------------------------------- lifecycle
Ctrls == {"c1", "c2"}

ValidationFailures == {"validation_failed", "resource_unavailable", "permission_error"}
CreationFailures == {"creation_failed", "template_invalid", "service_limit"}
RunTerminal == {"completed", "failed", "stopped", "timeout"}
Statuses ==
    {"draft", "validating", "creating", "created", "running", "execution_failed"}
        \cup ValidationFailures \cup CreationFailures \cup RunTerminal

\* Statuses an external retry may reset to draft.
RetryableStatuses == ValidationFailures \cup CreationFailures

\* What the execution service reports for an execution.
ServiceTerminal == {"completed", "failed", "stopped"}

NoNote == [status |-> "none", detail |-> "none"]
NoteStatusOnly(st, detail) == [status |-> st, detail |-> "none"]
Note(st, detail) == [status |-> st, detail |-> detail]



\* What an operation returns: the new persisted status was written, or
\* the request was rejected with an explicit error.
Reply(op, outcome) == [op |-> op, outcome |-> outcome]
NoReply == Reply("none", "none")

NoTemplate == <<>>
NoResp == [answer |-> "none", id |-> NoTemplate]
NoWrite == [expected |-> "none", before |-> "none", to |-> "draft"]
NoRun == [inv |-> <<>>, action |-> "none", outcome |-> "none",
          resolved |-> NoResolved, result |-> NoResult]

\* The inventories an experiment may start against: resources 1 and 2
\* carry env=test, the others no tag; every resource runs or is stopped.
TagsOf(i) == IF i <= 2 THEN EnvTest ELSE {}
InitInventories ==
    {[i \in ResIds |-> [state |-> st[i], tags |-> TagsOf(i)]] :
        st \in [ResIds -> ResourceStates]}

LifeModes == {Count(2), Percent(50), All}

\* The record as the upstream producer supplies it, and idle controllers.
LifeStart ==
    /\ drifts = 0
    /\ status = "draft"
    /\ notes = NoNote
    /\ templateId = NoTemplate
    /\ lastWrite = NoWrite
    /\ pc = [c \in Ctrls |-> "idle"]
    /\ vr = [c \in Ctrls |-> NoResult]
    /\ resp = [c \in Ctrls |-> NoResp]
    /\ pollCount = [c \in Ctrls |-> 0]
    /\ reply = NoReply
    /\ fisState = "none"
    /\ fisTargets = <<>>
    /\ createCalls = 0
    /\ startCalls = 0
    /\ validations = 0
    /\ retries = 0
    /\ lastRun = NoRun
    /\ warning = "none"
    /\ act = [c \in Ctrls |-> expAction]

LifeInit ==
    /\ inventory \in InitInventories
    /\ expMode \in LifeModes
    /\ expAction = "aws:ec2:stop-instances"
    /\ expTags \in {{}, EnvTest}
    /\ LifeStart

\* --------------------------------------------------- experiment store
\* The conditional update: the write applies only if the stored status
\* still is the expected prior status.
update_unconditional(expected) == TRUE
update_applies(expected) == status = expected

update_without_id(expected, new, detail, tid) ==
    IF update_applies(expected)
    THEN /\ status' = new
         /\ notes' = Note(new, detail)
         /\ templateId' = templateId
         /\ lastWrite' = [expected |-> expected, before |-> status, to |-> new]
    ELSE UNCHANGED storeVars

update_status_only(expected, new, detail, tid) ==
    IF update_applies(expected)
    THEN /\ status' = new
         /\ notes' = notes
         /\ templateId' = tid
         /\ lastWrite' = [expected |-> expected, before |-> status, to |-> new]
    ELSE UNCHANGED storeVars

\* update_experiment(experiment_id, status, fis_experiment_id, experiment_notes)
update_experiment(expected, new, detail, tid) ==
    IF update_applies(expected)
    THEN /\ status' = new
         /\ notes' = Note(new, detail)
         /\ templateId' = tid
         /\ lastWrite' = [expected |-> expected, before |-> status, to |-> new]
    ELSE UNCHANGED storeVars

OutcomeRaising(op, expected) ==
    Reply(op, IF update_applies(expected) THEN "ok" ELSE "exception")
Outcome(op, expected) ==
    Reply(op, IF update_applies(expected) THEN "ok" ELSE "rejected")

\* ---------------------------------------------- validate / create
\* Status of a discovery that ended with an error.
DiscoveryErrorStatus(error) ==
    CASE error = "unreachable" -> "resource_unavailable"
      [] error = "denied" -> "permission_error"
      [] OTHER -> "validation_failed"

\* Statuses of a validation run that does not proceed to creation:
\* validation_failed for insufficient resources, and also
\* resource_unavailable when resources were in the wrong state.
ValidationFailureAlwaysUnavailable(r, rejected) == {"resource_unavailable"}
ValidationFailureStatuses(r, rejected) ==
    CASE r.status \in {"unreachable", "denied", "unknown_type"} ->
             {DiscoveryErrorStatus(r.status)}
      [] r.status = "insufficient_resources" /\ rejected ->
             {"validation_failed", "resource_unavailable"}
      [] OTHER -> {"validation_failed"}

\* Step 3 of the validation pattern: creation goes on only with enough
\* valid resources.
ProceedsAlways(r) == TRUE
ProceedsToCreation(r) == r.status = "valid"

\* Discovery only lists and describes resources: the inventory after a
\* discovery run.
start_stopped_resources(inv) ==
    [i \in DOMAIN inv |-> [inv[i] EXCEPT !.state = "running"]]
describe_resources(inv) == inv

\* Every discovery queries the provider: the inventory a run works on.
earlier_inventory(inv, last) == IF last.inv = <<>> THEN inv ELSE last.inv
discovered_inventory(inv, last) == inv

\* A creation request: the record goes draft -> validating.
Validate(c) ==
    /\ pc[c] = "idle"
    /\ update_applies("draft") => validations <= MaxRetries
    /\ update_experiment("draft", "validating", "Starting resource discovery",
                         templateId)
    /\ IF update_applies("draft")
       THEN /\ pc' = [pc EXCEPT ![c] = "discover"]
            /\ act' = [act EXCEPT ![c] = expAction]
            /\ vr' = [vr EXCEPT ![c] = NoResult]
            /\ validations' = validations + 1
       ELSE UNCHANGED <<pc, act, vr, validations>>
    /\ reply' = Outcome("validate", "draft")
    /\ UNCHANGED <<selVars, tagVars, lastRun, warning, inventory, drifts, descVars, resp, pollCount,
                   fisVars, retries>>

\* Resource discovery and validation, then the status update after it.
\* A failover on a cluster with one instance either fails the validation
\* or is replaced by the declared fallback action, with a note.
Discover(c) ==
    /\ pc[c] = "discover"
    /\ \E outcome \in ResolveOutcomes, substitute \in BOOLEAN,
          st \in ValidationFailures :
         LET inv == discovered_inventory(inventory, lastRun)
             res == ResolveTarget(inv, outcome)
             members == TagFilter(res.resources, inv, expTags)
             violation == /\ res.error = "none"
                          /\ res.reason = "none"
                          /\ AggregateViolation(members, act[c])
             r == CASE res.error # "none" ->
                           [NoResult EXCEPT !.status = res.error]
                    [] violation ->
                           [NoResult EXCEPT !.status = "precondition_violation",
                                            !.required = MinMembers,
                                            !.eligible_count = Len(members)]
                    [] OTHER ->
                           ValidateResolved(res.resources, inv, expTags,
                                            act[c], expMode)
             rejected == Len(ValidResources(members, inv, act[c]))
                            < Len(members)
             detail == IF res.reason # "none" THEN res.reason ELSE r.status
         IN /\ substitute => (violation /\ HasFallback(act[c]))
            /\ st \in ValidationFailureStatuses(r, rejected)
            /\ lastRun' = [inv |-> inv, action |-> act[c],
                           outcome |-> outcome, resolved |-> res,
                           result |-> r]
            /\ IF substitute
               THEN /\ act' = [act EXCEPT ![c] = FallbackAction(act[c])]
                    /\ update_experiment("validating", "validating",
                                         SwitchNote, templateId)
                    /\ UNCHANGED <<pc, vr>>
               ELSE /\ UNCHANGED act
                    /\ vr' = [vr EXCEPT ![c] =
                                IF ProceedsToCreation(r)
                                     /\ update_applies("validating")
                                THEN r ELSE NoResult]
                    /\ IF ProceedsToCreation(r)
                       THEN /\ update_experiment(
                                   "validating", "creating",
                                   "Creating FIS experiment template",
                                   templateId)
                            /\ pc' = [pc EXCEPT ![c] =
                                        IF update_applies("validating")
                                        THEN "create" ELSE "idle"]
                       ELSE /\ update_experiment("validating", st, detail,
                                                 templateId)
                            /\ pc' = [pc EXCEPT ![c] = "idle"]
    /\ reply' = Outcome("discover", "validating")
    /\ warning' = IF update_applies("validating")
                  THEN action_warning(act[c]) ELSE warning
    /\ inventory' = describe_resources(inventory)
    /\ UNCHANGED <<selVars, tagVars, drifts, descVars,
                   resp, pollCount, fisVars, validations, retries>>

\* Status of a rejected template, from the service's own error.
CreationFailureAsValidation(answer) == "validation_failed"
CreationFailureGeneric(answer) == "creation_failed"
CreationFailureStatus(answer) ==
    CASE answer = "ValidationException" -> "template_invalid"
      [] answer = "ServiceQuotaExceededException" -> "service_limit"
      [] OTHER -> "creation_failed"

CreateAnswers ==
    {"accepted", "ValidationException", "ServiceQuotaExceededException",
     "InternalError"}

\* The persisted status from which create_template is due.
create_due(st) == st = "creating"

\* fis create_experiment_template with the validated targets.
CreateTemplate(c) ==
    /\ pc[c] = "create"
    /\ IF create_due(status)
       THEN \E answer \in CreateAnswers :
              /\ createCalls' = createCalls + 1
              /\ fisTargets' = vr[c].matched
              /\ resp' = [resp EXCEPT ![c] =
                            [answer |-> answer,
                             id |-> IF answer = "accepted"
                                    THEN <<createCalls + 1>> ELSE NoTemplate]]
              /\ pc' = [pc EXCEPT ![c] = "record"]
              /\ UNCHANGED <<reply, vr>>
       ELSE /\ pc' = [pc EXCEPT ![c] = "idle"]
            /\ reply' = Reply("create", "rejected")
            /\ vr' = [vr EXCEPT ![c] = NoResult]
            /\ UNCHANGED <<createCalls, fisTargets, resp>>
    /\ UNCHANGED <<selVars, tagVars, lastRun, act, warning, inventory, drifts, descVars, storeVars,
                   pollCount, fisState, startCalls, validations, retries>>

\* Target correction replaces the placeholder targets in the FIS request
\* only: update_experiment has no parameter for the configuration, so the
\* record keeps the descriptors it was inserted with.
corrected_descriptors(desc, targets) ==
    <<Explicit(SeqToSet(targets)), desc[2], desc[3]>>
kept_descriptors(desc, targets) == desc

\* The status update after FIS creation.
RecordCreation(c) ==
    /\ pc[c] = "record"
    /\ IF resp[c].answer = "accepted"
       THEN update_experiment("creating", "created",
                              "Successfully created FIS experiment", resp[c].id)
       ELSE update_experiment("creating", CreationFailureStatus(resp[c].answer),
                              resp[c].answer, templateId)
    /\ pc' = [pc EXCEPT ![c] = "idle"]
    /\ resp' = [resp EXCEPT ![c] = NoResp]
    /\ vr' = [vr EXCEPT ![c] = NoResult]
    /\ reply' = Outcome("create", "creating")
    /\ LET kept == kept_descriptors(descVars, fisTargets)
       IN /\ expMode' = kept[1]
          /\ expAction' = kept[2]
          /\ expTags' = kept[3]
    /\ UNCHANGED <<selVars, tagVars, lastRun, act, warning, inventory, drifts, pollCount,
                   fisVars, validations, retries>>


\* --------------------------------------------------------- execution
\* The persisted status from which start is due.
start_due_any(st) == TRUE
start_due(st) == st = "created"

\* An explicit execute request: check the persisted status, then
\* fis start_experiment.
ExecuteRequest(c) ==
    /\ pc[c] = "idle"
    /\ IF start_due(status)
       THEN /\ startCalls < Cardinality(Ctrls)
            /\ \E started \in BOOLEAN :
                 /\ startCalls' = startCalls + 1
                 /\ fisState' = IF started /\ fisState = "none"
                                THEN "running" ELSE fisState
                 /\ resp' = [resp EXCEPT ![c] =
                               [answer |-> IF started THEN "started"
                                           ELSE "start_error",
                                id |-> templateId]]
            /\ pc' = [pc EXCEPT ![c] = "started"]
            /\ UNCHANGED reply
       ELSE /\ reply' = Reply("execute", "rejected")
            /\ UNCHANGED <<startCalls, fisState, resp, pc>>
    /\ UNCHANGED <<selVars, tagVars, lastRun, act, warning, inventory, drifts, descVars, storeVars, vr,
                   pollCount, fisTargets, createCalls, validations, retries>>

\* The status update during execution: running, or execution_failed when
\* start_experiment answered with an error.
RecordStart(c) ==
    /\ pc[c] = "started"
    /\ IF resp[c].answer = "started"
       THEN /\ update_experiment("created", "running", "Execution started",
                                 templateId)
            /\ pc' = [pc EXCEPT ![c] =
                        IF update_applies("created") THEN "poll" ELSE "idle"]
       ELSE /\ update_experiment("created", "execution_failed",
                                 resp[c].answer, templateId)
            /\ pc' = [pc EXCEPT ![c] = "idle"]
    /\ pollCount' = [pollCount EXCEPT ![c] = 0]
    /\ resp' = [resp EXCEPT ![c] = NoResp]
    /\ reply' = Outcome("start", "created")
    /\ UNCHANGED <<selVars, tagVars, lastRun, act, warning, inventory, drifts, descVars, vr, fisVars,
                   validations, retries>>

\* The overall polling deadline.
poll_never_expires(n) == FALSE
poll_deadline_reached(n) == n >= MaxPolls

\* The final status of a poll that ends the monitoring.
FinalStatusFailedOnTimeout(reported) ==
    IF reported \in ServiceTerminal THEN reported ELSE "failed"
FinalStatus(reported) ==
    IF reported \in ServiceTerminal THEN reported ELSE "timeout"

\* One fis get_experiment poll of a running experiment.
Poll(c) ==
    /\ pc[c] = "poll"
    /\ IF fisState \in ServiceTerminal \/ poll_deadline_reached(pollCount[c])
       THEN /\ update_experiment("running", FinalStatus(fisState), fisState,
                                 templateId)
            /\ pc' = [pc EXCEPT ![c] = "idle"]
            /\ reply' = Outcome("poll", "running")
            /\ pollCount' = [pollCount EXCEPT ![c] = 0]
       ELSE /\ pollCount' = [pollCount EXCEPT ![c] =
                                 IF pollCount[c] < MaxPolls
                                 THEN pollCount[c] + 1 ELSE pollCount[c]]
            /\ UNCHANGED <<storeVars, pc, reply>>
    /\ UNCHANGED <<selVars, tagVars, lastRun, act, warning, inventory, drifts, descVars, vr, resp, fisVars,
                   validations, retries>>

\* The execution service ends the execution on its own.
ServiceReport ==
    /\ fisState = "running"
    /\ \E t \in ServiceTerminal : fisState' = t
    /\ UNCHANGED <<selVars, tagVars, lastRun, act, warning, inventory, drifts, descVars, storeVars, ctrlVars,
                   fisTargets, createCalls, startCalls, validations, retries>>

\* ------------------------------------------------ external operations
\* Where a cancel leaves a controller: the pending step of a validation
\* or creation is still taken, so the record leaves its transient status.
CancelledPcAbort(p) == IF p \in {"discover", "create", "record"} THEN "idle" ELSE p
CancelledPc(p) == p

\* Cancel.  An execution in flight is stopped on the execution service
\* and the record becomes stopped; before the run phase the record is
\* left as it is.
Cancel ==
    /\ status \in {"draft", "validating", "creating", "running"}
    /\ IF status = "running" /\ fisState = "running"
       THEN /\ fisState' = "stopped"
            /\ update_experiment("running", "stopped", "stopped on cancel",
                                 templateId)
            /\ reply' = Reply("cancel", "ok")
       ELSE /\ reply' = Reply("cancel", "noop")
            /\ UNCHANGED <<fisState, storeVars>>
    /\ pc' = [c \in Ctrls |-> CancelledPc(pc[c])]
    /\ UNCHANGED <<selVars, tagVars, lastRun, act, warning, inventory, drifts, descVars, vr, resp, pollCount,
                   fisTargets, createCalls, startCalls, validations, retries>>

\* The explicit external retry: back to draft, notes cleared.
Retry ==
    /\ status \in RetryableStatuses
    /\ retries < MaxRetries
    /\ status' = "draft"
    /\ notes' = NoNote
    /\ templateId' = NoTemplate
    /\ lastWrite' = [expected |-> status, before |-> status, to |-> "draft"]
    /\ retries' = retries + 1
    /\ reply' = Reply("retry", "ok")
    /\ warning' = "none"
    /\ UNCHANGED <<selVars, tagVars, lastRun, act, inventory, drifts, descVars, pc, vr, resp,
                   pollCount, fisVars,
                   validations>>

\* The inventory changes under the experiment (a resource starts or
\* stops).  Only a change that a discovery can still observe is modelled.
Drift ==
    /\ drifts < MaxDrift
    /\ status \in {"draft", "validating"}
    /\ \E i \in DOMAIN inventory, s \in ResourceStates :
         /\ s # inventory[i].state
         /\ inventory' = [inventory EXCEPT ![i].state = s]
    /\ drifts' = drifts + 1
    /\ UNCHANGED <<selVars, tagVars, lastRun, act, warning, descVars, storeVars, ctrlVars, fisVars,
                   validations, retries>>

SelIdle ==
    /\ selEligible = <<>>
    /\ selMode = All
    /\ selResult = NoResult

TagIdle ==
    /\ tagIds = <<>>
    /\ tagInv = <<>>
    /\ tagFilt = {}
    /\ tagOut = <<>>
    /\ tagDone = FALSE

Init == SelIdle /\ TagIdle /\ LifeInit

Next ==
    \/ \E c \in Ctrls : Validate(c)
    \/ \E c \in Ctrls : Discover(c)
    \/ \E c \in Ctrls : CreateTemplate(c)
    \/ \E c \in Ctrls : RecordCreation(c)
    \/ \E c \in Ctrls : ExecuteRequest(c)
    \/ \E c \in Ctrls : RecordStart(c)
    \/ \E c \in Ctrls : Poll(c)
    \/ ServiceReport
    \/ Cancel
    \/ Retry
    \/ Drift

Spec == Init /\ [][Next]_vars

\* Every controller step is taken eventually; the execution service and
\* the external operations are under no obligation.
Fairness ==
    \A c \in Ctrls :
        /\ WF_vars(Discover(c))
        /\ WF_vars(CreateTemplate(c))
        /\ WF_vars(RecordCreation(c))
        /\ WF_vars(RecordStart(c))
        /\ WF_vars(Poll(c))

\* The run phase does not read the inventory: the fair behaviours start
\* from the inventory with every resource running and no tag filter.
FairInit ==
    /\ Init
    /\ \A i \in ResIds : inventory[i].state = "running"
    /\ expTags = {}

FairSpec == FairInit /\ [][Next]_vars /\ Fairness

\* Experiments on a group (a DB cluster, a nodegroup) of one to NumRes
\* members, all available.
GroupInventories ==
    {[i \in 1..n |-> [state |-> "available", tags |-> {}]] : n \in 1..NumRes}

GroupInit ==
    /\ SelIdle
    /\ TagIdle
    /\ inventory \in GroupInventories
    /\ expMode \in {All, Count(2)}
    /\ expAction \in AggregateActions
    /\ expTags = {}
    /\ LifeStart

GroupSpec == GroupInit /\ [][Next]_vars

\* Experiments with an action the precondition rules do not know.
UnknownAction == "aws:ssm:send-command"
UnknownInit ==
    /\ SelIdle
    /\ TagIdle
    /\ inventory \in InitInventories
    /\ expMode \in {All, Count(2)}
    /\ expAction = UnknownAction
    /\ expTags \in {{}, EnvTest}
    /\ LifeStart

UnknownSpec == UnknownInit /\ [][Next]_vars

\* ------------------------------------- the evaluator on drawn inputs
\* The lifecycle at rest while the evaluator is applied to drawn inputs.
LifeIdle ==
    /\ LifeInit
    /\ inventory = [i \in ResIds |-> [state |-> "running", tags |-> TagsOf(i)]]
    /\ expMode = All
    /\ expTags = {}

SelModes ==
    {Count(n) : n \in 0..MaxCount} \cup {Percent(p) : p \in PercentValues}
        \cup {All} \cup {Explicit(S) : S \in SUBSET ResIds}

SelInit ==
    /\ LifeIdle
    /\ TagIdle
    /\ selEligible \in {SetToSeq(S) : S \in SUBSET ResIds}
    /\ selMode \in SelModes
    /\ selResult = NoResult

Evaluate ==
    /\ selResult = NoResult
    /\ selResult' = EvaluateSelection(selEligible, selMode)
    /\ UNCHANGED <<selEligible, selMode, tagVars, lifeVars>>

SelNext == Evaluate

SelSpec == SelInit /\ [][SelNext]_vars

\* ------------------------- one validation run on drawn inventories
\* Inventories of one to MaxPipeRes instances, each running or stopped,
\* tagged env=test or untagged.
PipeInventories ==
    UNION {[1..n -> [state : ResourceStates, tags : {{}, EnvTest}]] :
              n \in 1..MaxPipeRes}

PipeInit ==
    /\ TagIdle
    /\ selEligible = <<>>
    /\ selMode = All
    /\ selResult = NoResult
    /\ inventory \in PipeInventories
    /\ expMode \in {Percent(p) : p \in PercentValues}
    /\ expAction = "aws:ec2:stop-instances"
    /\ expTags \in {{}, EnvTest}
    /\ LifeStart

RunValidation ==
    /\ selResult = NoResult
    /\ selResult' = ValidateTarget(inventory, expTags, expAction, expMode)
    /\ UNCHANGED <<selEligible, selMode, tagVars, lifeVars>>

PipeNext == RunValidation

PipeSpec == PipeInit /\ [][PipeNext]_vars

\* ------------------------------------ the tag filter on drawn inputs
\* Tag maps over the keys A, a and B: at most one value per key.
TagPairs == {<<"A", "1">>, <<"a", "1">>, <<"B", "2">>, <<"B", "3">>}
TagMaps ==
    {m \in SUBSET TagPairs :
        \A x \in m, y \in m : x[1] = y[1] => x = y}

TagResIds == 1..MaxTagRes

\* The lists of distinct resources, in every order.
TagLists ==
    {l \in UNION {[1..n -> TagResIds] : n \in 0..MaxTagRes} :
        \A j \in DOMAIN l, k \in DOMAIN l : l[j] = l[k] => j = k}

TagInit ==
    /\ LifeIdle
    /\ SelIdle
    /\ tagInv \in [TagResIds -> [state : {"running"}, tags : TagMaps]]
    /\ tagIds \in TagLists
    /\ tagFilt \in TagMaps
    /\ tagOut = <<>>
    /\ tagDone = FALSE

ApplyTagFilter ==
    /\ ~tagDone
    /\ tagOut' = TagFilter(tagIds, tagInv, tagFilt)
    /\ tagDone' = TRUE
    /\ UNCHANGED <<tagIds, tagInv, tagFilt, selVars, lifeVars>>

TagNext == ApplyTagFilter

TagSpec == TagInit /\ [][TagNext]_vars

\* ================================================================ claims

C2_CountValidityAndMatch ==
    (selResult # NoResult /\ selMode.kind = "count") =>
        LET n == selMode.n
            k == Len(selEligible)
        IN /\ (selResult.status = "valid") <=> (k >= n)
           /\ (Len(selResult.matched) = n) <=> (k >= n)
           /\ k >= n => selResult.matched = SubSeq(selEligible, 1, n)

C2_Witness ==
    /\ selMode = Count(2)
    /\ Len(selEligible) = 3
    /\ selResult.status = "valid"
    /\ selResult.matched = <<selEligible[1], selEligible[2]>>

\* The status graph as the claim declares it.
DeclaredEdges ==
    {<<"draft", "validating">>, <<"created", "running">>}
        \cup ({"validating"} \X ({"created"} \cup ValidationFailures))
        \cup ({"validating", "created"} \X CreationFailures)
        \cup ({"running"} \X RunTerminal)

\* The status graph of the workflow: creation passes through "creating",
\* and a start error ends in "execution_failed".
WorkflowEdges ==
    {<<"draft", "validating">>, <<"validating", "creating">>,
     <<"creating", "created">>, <<"created", "running">>,
     <<"created", "execution_failed">>}
        \cup ({"validating"} \X ValidationFailures)
        \cup ({"creating"} \X CreationFailures)
        \cup ({"running"} \X RunTerminal)

\* A step of the external retry: to draft, notes cleared.
RetryStep ==
    /\ retries' = retries + 1
    /\ status' = "draft"
    /\ notes' = NoNote

\* A step of some controller (never of the external retry).
ControllerStep ==
    \E c \in Ctrls :
        \/ Validate(c) \/ Discover(c) \/ CreateTemplate(c)
        \/ RecordCreation(c) \/ ExecuteRequest(c) \/ RecordStart(c) \/ Poll(c)

C5_CreatedOnlyWhenValidAndAccepted ==
    [][(status' = "created" /\ status # "created") =>
          \E c \in Ctrls :
              /\ pc[c] = "record"
              /\ vr[c].status = "valid"
              /\ resp[c].answer = "accepted"
              /\ resp[c].id # NoTemplate
              /\ templateId' = resp[c].id]_vars

C5_Witness ==
    /\ status = "created"
    /\ templateId # NoTemplate
    /\ fisTargets # <<>>
    /\ reply = Reply("create", "ok")

C8_RunningOnlyOnExecuteRequest ==
    [][/\ (status' = "running" /\ status # "running") =>
             /\ status = "created"
             /\ \E c \in Ctrls : pc[c] = "started" /\ resp[c].answer = "started"
       /\ startCalls' # startCalls =>
             \E c \in Ctrls : ExecuteRequest(c) /\ start_due(status)
                                /\ status = "created"
       /\ \A c \in Ctrls :
             (RecordCreation(c) \/ Discover(c) \/ CreateTemplate(c)) =>
                 (startCalls' = startCalls /\ fisState' = fisState
                    /\ pc'[c] \in {"idle", "create", "record"})]_vars

C8_Witness ==
    /\ status = "running"
    /\ startCalls = 1
    /\ reply = Reply("start", "ok")

C10_TimeoutDistinctFromFailed ==
    [][/\ (status' = "timeout" /\ status # "timeout") =>
             /\ status = "running"
             /\ fisState \notin ServiceTerminal
             /\ \E c \in Ctrls : pc[c] = "poll" /\ pollCount[c] >= MaxPolls
       /\ \A c \in Ctrls :
             (Poll(c) /\ status = "running" /\ pollCount[c] >= MaxPolls
                 /\ fisState \notin ServiceTerminal) => status' = "timeout"
       /\ (status' \in ServiceTerminal /\ status' # status) =>
             (status = "running" /\ fisState' = status')]_vars

C10_Witness ==
    /\ status = "timeout"
    /\ notes = Note("timeout", "running")
    /\ reply = Reply("poll", "ok")

C12_MatchedWithinEligible ==
    [][/\ \A c \in Ctrls :
             (vr'[c] # vr[c] /\ vr'[c].status = "valid") =>
                 \A k \in 1..Len(vr'[c].matched) :
                     LET i == vr'[c].matched[k]
                     IN /\ i \in DOMAIN inventory
                        /\ expTags \subseteq inventory[i].tags
                        /\ validate_resource_for_action(inventory[i], act'[c])
       /\ fisTargets' # fisTargets =>
             \E c \in Ctrls : /\ vr[c].status = "valid"
                               /\ fisTargets' = vr[c].matched]_vars

C12_Witness ==
    /\ expTags = EnvTest
    /\ fisTargets = <<2>>
    /\ inventory[1].state = "stopped"
    /\ createCalls = 1

\* The position of resource i in the list l.
PosIn(l, i) == CHOOSE j \in DOMAIN l : l[j] = i

\* C13: the tag filter returns exactly the resources of its input whose
\* tags contain every pair of the filter (keys and values compared
\* exactly), each once and in input order; with an empty filter the
\* output is the input.
C13_TagFilterExact ==
    tagDone =>
        /\ \A i \in TagResIds :
              i \in SeqToSet(tagOut) <=>
                  /\ i \in SeqToSet(tagIds)
                  /\ \A kv \in tagFilt : kv \in tagInv[i].tags
        /\ \A j \in DOMAIN tagOut, k \in DOMAIN tagOut :
              j < k => PosIn(tagIds, tagOut[j]) < PosIn(tagIds, tagOut[k])
        /\ tagFilt = {} => tagOut = tagIds

C13_Witness ==
    /\ tagDone
    /\ tagIds = <<1, 2>>
    /\ tagInv[1].tags = {<<"A", "1">>, <<"B", "2">>}
    /\ tagInv[2].tags = {<<"A", "1">>}
    /\ tagFilt = {<<"A", "1">>, <<"B", "2">>}
    /\ tagOut = <<1>>

\* The resources of the inventory that carry every workload tag and pass
\* the precondition of the action, in the resolver's order.
EligibleNow ==
    SetToSeq({i \in DOMAIN inventory :
                 /\ expTags \subseteq inventory[i].tags
                 /\ inventory[i].state = "running"})

C15_ExplicitAllListedEligible ==
    (selResult # NoResult /\ selMode.kind = "explicit") =>
        LET listed == selMode.ids
            present(id) == \E k \in DOMAIN selEligible : selEligible[k] = id
            valid == selResult.status = "valid"
        IN /\ valid <=> \A id \in listed : present(id)
           /\ selResult.missing = {id \in listed : ~present(id)}
           /\ valid => SeqToSet(selResult.matched) = listed
           /\ ~valid => (selResult.missing # {} /\ selResult.matched = <<>>)

C15_Witness ==
    /\ selMode = Explicit({1, 2, 3})
    /\ selEligible = <<2>>
    /\ selResult.status = "insufficient_resources"
    /\ selResult.missing = {1, 3}

ValidationEnds(c) ==
    /\ Discover(c)
    /\ status = "validating"
    /\ status' \in ValidationFailures

\* Some resource with the workload tags is not in the state the action
\* requires.
WrongStateNow ==
    \E i \in DOMAIN inventory :
        /\ expTags \subseteq inventory[i].tags
        /\ ~validate_resource_for_action(inventory[i], expAction)

OperationEnds ==
    \/ \E c \in Ctrls : pc[c] # "idle" /\ pc'[c] = "idle"
    \/ \E c \in Ctrls : (Validate(c) \/ ExecuteRequest(c)) /\ pc'[c] = "idle"
    \/ Cancel
    \/ RetryStep

Results ==
    [op : {"validate", "discover", "create", "execute", "start", "poll",
           "cancel", "retry"},
     outcome : {"ok", "rejected", "noop"}]

\* C21: every operation ends with a result, never with an exception: the
\* result names the operation and is ok, with the written status and its
\* note in the store, or a rejection (for a cancel: nothing to stop)
\* that leaves the store as it was.
C21_EveryOperationReturnsResult ==
    /\ [](reply = NoReply \/ reply \in Results)
    /\ [][OperationEnds =>
             /\ reply' \in Results
             /\ (reply'.outcome = "ok" /\ ~RetryStep) =>
                   (lastWrite'.to = status' /\ notes'.status = status'
                      /\ lastWrite' # lastWrite)
             /\ reply'.outcome \in {"rejected", "noop"} =>
                   UNCHANGED storeVars]_vars

C21_Witness ==
    /\ reply = Reply("poll", "rejected")
    /\ status = "stopped"
    /\ notes = Note("stopped", "stopped on cancel")

FailureStatuses ==
    ValidationFailures \cup CreationFailures \cup {"execution_failed", "failed", "timeout"}

\* C22: the record is never removed: it has a status in every state, and
\* once it is in a failure status it keeps that status with the
\* diagnostic note of the failure until an external retry resets it.
C22_RecordKeptWithDiagnostics ==
    /\ [](/\ status \in Statuses
          /\ status \in FailureStatuses =>
                (notes.status = status /\ notes.detail \notin {"", "none"}))
    /\ [][(status \in FailureStatuses /\ ~RetryStep) =>
             (status' = status /\ notes' = notes)]_vars

C22_Witness ==
    /\ status = "resource_unavailable"
    /\ notes.status = "resource_unavailable"
    /\ notes.detail # "none"
    /\ \A c \in Ctrls : pc[c] = "idle"
    /\ retries = MaxRetries

\* C23: a validation run only reads the inventory: the resources, their
\* states and their tags are the same after every step of a validation
\* run, whether it ends valid or in a failure, as before it.
C23_ValidationReadsOnly ==
    [][(\E c \in Ctrls : Validate(c) \/ Discover(c)) =>
           inventory' = inventory]_vars

C23_Witness ==
    /\ lastRun.result.status = "insufficient_resources"
    /\ lastRun.inv = inventory
    /\ \E i \in DOMAIN inventory : inventory[i].state = "stopped"
    /\ status \in ValidationFailures

\* The resources of the inventory that carry the workload tags and are
\* in an active state.
ActiveNow ==
    {i \in DOMAIN inventory :
        expTags \subseteq inventory[i].tags /\ inventory[i].state \in ActiveStates}

TaggedRunning ==
    {i \in DOMAIN inventory :
        expTags \subseteq inventory[i].tags /\ inventory[i].state = "running"}

\* The inventory of the example: four instances, two tagged env=test and
\* running, two untagged.
FourInstances ==
    /\ DOMAIN inventory = 1..4
    /\ \A i \in {1, 2} :
          inventory[i].tags = EnvTest /\ inventory[i].state = "running"
    /\ \A i \in {3, 4} : inventory[i].tags = {}
    /\ expTags = EnvTest
    /\ expMode = Percent(50)

C26_DescriptorsKept ==
    [][/\ descVars' = descVars
       /\ fisTargets' # fisTargets =>
             \E c \in Ctrls : CreateTemplate(c) /\ fisTargets' = vr[c].matched]_vars

C26_Witness ==
    /\ status = "created"
    /\ fisTargets = <<1>>
    /\ expMode = All
    /\ expAction = "aws:rds:failover-db-cluster"
    /\ \E c \in Ctrls : act[c] = "aws:rds:reboot-db-instances"

C28_NoteWithEveryTransition ==
    [][/\ (status' # status /\ ~RetryStep) =>
             /\ notes'.status = status'
             /\ notes'.detail \notin {"", "none"}
             /\ lastWrite'.to = status'
       /\ (notes' = NoNote /\ notes # NoNote) => RetryStep
       /\ RetryStep => notes' = NoNote]_vars

C28_Witness ==
    /\ status = "running"
    /\ notes.status = "running"
    /\ lastWrite.to = "running"
    /\ retries = 1

C30_OneCreateOneStart ==
    /\ createCalls <= retries + 1
    /\ startCalls <= 1

\* Two controllers took an execute request for the same created record,
\* each read the status created and called start, and the service
\* accepted both calls before either wrote running.
C30_Witness ==
    /\ status = "created"
    /\ startCalls = 2
    /\ createCalls = 1
    /\ \A c \in Ctrls : pc[c] = "started" /\ resp[c].answer = "started"

====
